---- MODULE Spec2Model ----
(***************************************************************************)
(* Layering (build_levels) and per-layer renaming (transform) of           *)
(* src/graph_algo_test/graph_transform.py.                                 *)
(*                                                                         *)
(* Encoding of strings                                                     *)
(*   letter      a number: 0..25 is 'A'..'Z', 26..51 is 'a'..'z'           *)
(*   name        [alpha |-> sequence of letters, num |-> the integer the   *)
(*               decimal digits denote]      ("A0" is [<<0>>, 0])          *)
(*   alias       [can |-> canonical id, idx |-> k]; idx = 0 is the bare    *)
(*               canonical id, idx = k > 0 is the string "<can>_<k>"       *)
(*   history     [old |-> name, new |-> name] is the string "<old>→<new>"  *)
(* A canonical id (a node key of the graph) is the name nth(i) the node    *)
(* was created with.  Python list index i is position i+1 of a sequence.   *)
(***************************************************************************)
EXTENDS Integers, Sequences, FiniteSets, TLC

VARIABLES
    order,       \* list(g): the node keys in insertion order
    edges,       \* g.edges: set of <<source, target>>
    data,        \* g.nodes[v]['data'] for every key v
    pc,          \* position of the caller / of the running function
    indeg,       \* build_levels: in-degree counter per canonical id
    alias_cnt,   \* build_levels: defaultdict(int), canonical -> alias counter
    levels,      \* build_levels: the layers built so far
    queue,       \* build_levels: the work deque
    breaks,      \* canonical ids force-broken by the running build_levels call
    lvls,        \* the caller's layers, as returned by build_levels
    current,     \* transform: canonical -> latest name
    depth,       \* transform: index of the layer being visited (from 0)
    pos,         \* transform: position of the next alias in that layer
    n_steps,     \* number of per-alias transformation steps taken so far
    pass_start,  \* transform: g's node data as they were when the pass began
    tape,        \* `random`: the period of draws the seed's generator yields
    cursor,      \* `random`: how far into that period the generator is
    args,        \* make_graph's arguments in the current run, <<>> before it
    first,       \* what the first of two runs took and produced, <<>> before
    err,         \* the exception that reached the caller, "none" if none
    registry,    \* CodeDependencyGraph.nodes: unique_id -> file node
    links,       \* CodeDependencyGraph.graph's edges: <<source id, target id>>
    out          \* the last report a caller obtained (adjacency view or dump)

vars == <<order, edges, data, pc, indeg, alias_cnt, levels, queue, breaks,
          lvls, current, depth, pos, n_steps, pass_start, tape, cursor, args, first,
          err,
          registry, links, out>>

graphVars == <<order, edges>>
levelVars == <<indeg, alias_cnt, levels, queue, breaks>>
transVars == <<current, depth, pos, n_steps, pass_start>>
seedVars  == <<tape, cursor, args, first>>
libVars   == <<err, registry, links>>
auxVars   == <<seedVars, libVars, out>>

\* ---- bounds -------------------------------------------------------------
MaxNodes == 3
MaxTransforms == 5
MaxViewEdges == 2
MaxNamedNodes == 2
MaxPaths == 3
MaxLinks == 2
MaxGenNodes == 3
MaxLoopNodes == 27
Period == 4

\* ---- helpers ------------------------------------------------------------
AlphabetSize == 26

Range(s) == {s[i] : i \in 1..Len(s)}

UpperCh(c) == c % AlphabetSize
LowerCh(c) == AlphabetSize + (c % AlphabetSize)
Upper(alpha) == [i \in 1..Len(alpha) |-> UpperCh(alpha[i])]
Lower(alpha) == [i \in 1..Len(alpha) |-> LowerCh(alpha[i])]

\* a rename that leaves the letters as they are unless it upper-cases them
BumpKeepCase(old, draw) ==
    [alpha |-> IF draw THEN Upper(old.alpha) ELSE old.alpha,
     num   |-> old.num + 1]

\* a rename that keeps the number
BumpSameNum(old, draw) ==
    [alpha |-> IF draw THEN Upper(old.alpha) ELSE Lower(old.alpha),
     num   |-> old.num]

\* bump(old), with draw = (random.random() < .5)
Bump(old, draw) ==
    [alpha |-> IF draw THEN Upper(old.alpha) ELSE Lower(old.alpha),
     num   |-> old.num + 1]

\* line 22: _pat.fullmatch(name) succeeds: one or more ASCII letters, then
\* one or more digits.  A letter code outside 0..51 stands for any other
\* character, no letters for an empty prefix, num = -1 for no digits.
Matches(name) ==
    /\ Len(name.alpha) >= 1
    /\ \A i \in 1..Len(name.alpha) : name.alpha[i] \in 0..(2 * AlphabetSize - 1)
    /\ name.num >= 0

RECURSIVE NthLetters(_, _)
NthLetters(i, s) ==
    LET s2 == <<i % AlphabetSize>> \o s
        i2 == i \div AlphabetSize
    IN  IF i2 = 0 THEN s2 ELSE NthLetters(i2, s2)

nth(i) == [alpha |-> NthLetters(i, <<>>), num |-> 0]

NodeData(nm) ==
    [name |-> nm, n_transforms |-> 0, history |-> <<>>, parent_history |-> <<>>]

\* ---- the graph ----------------------------------------------------------
NodeSet == Range(order)

InDegree(v) == Cardinality({e \in edges : e[2] = v})

Successors(v) == SelectSeq(order, LAMBDA c : <<v, c>> \in edges)

Predecessors(v) == SelectSeq(order, LAMBDA p : <<p, v>> \in edges)

\* ---- aliases ------------------------------------------------------------
Alias(v, k) == [can |-> v, idx |-> k]

\* alias.split('_')[0]
SplitCanon(alias) == alias.can

\* ---- build_levels -------------------------------------------------------
\* line 94: level0 = [v for v, d in indeg.items() if d == 0]
Level0(deg) ==
    LET roots == SelectSeq(order, LAMBDA v : deg[v] = 0)
    IN  [i \in 1..Len(roots) |-> Alias(roots[i], 0)]

\* a new trailing layer instead of the one after the dequeued node's
LvlIdxTrailing(lv, cur_alias) == Len(lv)

\* the layer of the dequeued node itself instead of the one after it
LvlIdxSameLayer(lv, cur_alias) ==
    LET at == {i \in 1..Len(lv) : cur_alias \in Range(lv[i])}
        mx == CHOOSE i \in at : \A j \in at : j <= i
    IN  mx - 1

\* line 111: max(idx for idx,l in enumerate(levels) if cur_alias in l) + 1
\* (the value is a list index from 0, so the layer it names is at position
\* LvlIdx + 1 of the sequence)
LvlIdx(lv, cur_alias) ==
    LET at == {i \in 1..Len(lv) : cur_alias \in Range(lv[i])}
        mx == CHOOSE i \in at : \A j \in at : j <= i
    IN  (mx - 1) + 1

\* "== 1" for "== 0": placed while one predecessor is still to come
ReachesOne(d) == d = 1

\* "<= 0" for "== 0"
ReachesZeroOrBelow(d) == d <= 0

\* line 107: if indeg[child] == 0
ReachesZero(d) == d = 0

\* lines 106-115, one pass of the loop body for one child; st holds the
\* function's locals
RelaxChild(st, child, cur_alias) ==
    LET d  == st.indeg[child] - 1
        st1 == [st EXCEPT !.indeg[child] = d]
    IN  IF ReachesZero(d)
        THEN LET k == st1.alias_cnt[child]
                 new_alias == IF k = 0 THEN Alias(child, 0) ELSE Alias(child, k)
                 lvl_idx == LvlIdx(st1.levels, cur_alias)
                 lv1 == IF Len(st1.levels) <= lvl_idx
                        THEN Append(st1.levels, <<>>)
                        ELSE st1.levels
                 lv2 == [lv1 EXCEPT ![lvl_idx + 1] = Append(@, new_alias)]
             IN  [st1 EXCEPT !.alias_cnt[child] = k + 1,
                             !.levels = lv2,
                             !.queue = Append(@, new_alias)]
        ELSE st1

\* line 105: for child in g.successors(cur_can)
RECURSIVE RelaxChildren(_, _, _)
RelaxChildren(st, children, cur_alias) ==
    IF children = <<>> THEN st
    ELSE RelaxChildren(RelaxChild(st, Head(children), cur_alias),
                       Tail(children), cur_alias)

\* "> 1" for "> 0"
AnyAboveOne(deg) == \E v \in NodeSet : deg[v] > 1

\* line 118: any(d > 0 for d in indeg.values())
AnyPositive(deg) == \E v \in NodeSet : deg[v] > 0

\* ">= 0" for "> 0"
StuckNonNegative(deg) == Head(SelectSeq(order, LAMBDA v : deg[v] >= 0))

\* line 119: next(v for v,d in indeg.items() if d > 0)
Stuck(deg) == Head(SelectSeq(order, LAMBDA v : deg[v] > 0))

\* callers: the demo calls build_levels once the graph exists; nothing stops
\* a caller from calling it again after a call has returned
Callable == pc \in {"idle", "returned", "transformed"}

\* lines 93-100
BuildLevelsStart ==
    /\ Callable
    /\ LET deg == [v \in NodeSet |-> InDegree(v)]
           level0 == Level0(deg)
       IN  /\ indeg' = deg
           /\ levels' = <<level0>>
           /\ alias_cnt' = [v \in NodeSet |->
                              IF Alias(v, 0) \in Range(level0) THEN 1 ELSE 0]
           /\ queue' = level0
    /\ breaks' = <<>>
    /\ pc' = "while"
    /\ UNCHANGED <<auxVars, graphVars, data, lvls, transVars>>

\* lines 101-115: the loop test succeeds, one node is dequeued and its
\* successors are relaxed
Dequeue ==
    /\ pc = "while"
    /\ queue # <<>>
    /\ LET cur_alias == Head(queue)
           cur_can == SplitCanon(cur_alias)
           st0 == [indeg |-> indeg, alias_cnt |-> alias_cnt,
                   levels |-> levels, queue |-> Tail(queue)]
           st == RelaxChildren(st0, Successors(cur_can), cur_alias)
       IN  /\ indeg' = st.indeg
           /\ alias_cnt' = st.alias_cnt
           /\ levels' = st.levels
           /\ queue' = st.queue
    /\ pc' = "check"
    /\ UNCHANGED <<auxVars, graphVars, data, breaks, lvls, transVars>>

\* a cycle-breaker that puts the stuck node into the last existing layer
ForcedBreakIntoLast ==
    /\ pc = "check"
    /\ queue = <<>>
    /\ AnyPositive(indeg)
    /\ LET stuck == Stuck(indeg)
           cnt == IF alias_cnt[stuck] = 0 THEN 1 ELSE alias_cnt[stuck]
           new_alias == IF cnt = 1 THEN Alias(stuck, 0) ELSE Alias(stuck, cnt - 1)
       IN  /\ indeg' = [indeg EXCEPT ![stuck] = 0]
           /\ alias_cnt' = [alias_cnt EXCEPT ![stuck] = cnt]
           /\ levels' = [levels EXCEPT ![Len(levels)] = Append(@, new_alias)]
           /\ queue' = Append(queue, new_alias)
           /\ breaks' = Append(breaks, stuck)
    /\ pc' = "while"
    /\ UNCHANGED <<auxVars, graphVars, data, lvls, transVars>>

\* a cycle-breaker that also drops the stuck node's incoming edges from g
ForcedBreakDropEdges ==
    /\ pc = "check"
    /\ queue = <<>>
    /\ AnyPositive(indeg)
    /\ LET stuck == Stuck(indeg)
           cnt == IF alias_cnt[stuck] = 0 THEN 1 ELSE alias_cnt[stuck]
           new_alias == IF cnt = 1 THEN Alias(stuck, 0) ELSE Alias(stuck, cnt - 1)
       IN  /\ indeg' = [indeg EXCEPT ![stuck] = 0]
           /\ alias_cnt' = [alias_cnt EXCEPT ![stuck] = cnt]
           /\ levels' = Append(levels, <<new_alias>>)
           /\ queue' = Append(queue, new_alias)
           /\ breaks' = Append(breaks, stuck)
           /\ edges' = {e \in edges : e[2] # stuck}
    /\ pc' = "while"
    /\ UNCHANGED <<auxVars, order, data, lvls, transVars>>

\* lines 118-124: the cycle-breaker fires
ForcedBreak ==
    /\ pc = "check"
    /\ queue = <<>>
    /\ AnyPositive(indeg)
    /\ LET stuck == Stuck(indeg)
           cnt == IF alias_cnt[stuck] = 0 THEN 1 ELSE alias_cnt[stuck]
           new_alias == IF cnt = 1 THEN Alias(stuck, 0) ELSE Alias(stuck, cnt - 1)
       IN  /\ indeg' = [indeg EXCEPT ![stuck] = 0]
           /\ alias_cnt' = [alias_cnt EXCEPT ![stuck] = cnt]
           /\ levels' = Append(levels, <<new_alias>>)
           /\ queue' = Append(queue, new_alias)
           /\ breaks' = Append(breaks, stuck)
    /\ pc' = "while"
    /\ UNCHANGED <<auxVars, graphVars, data, lvls, transVars>>

\* line 118: the cycle-breaker's condition is false
NoBreak ==
    /\ pc = "check"
    /\ ~(queue = <<>> /\ AnyPositive(indeg))
    /\ pc' = "while"
    /\ UNCHANGED <<auxVars, graphVars, data, levelVars, lvls, transVars>>

\* a loop that is only left once no counter is positive
BuildLevelsReturnStrict ==
    /\ pc = "while"
    /\ queue = <<>>
    /\ ~AnyPositive(indeg)
    /\ lvls' = levels
    /\ pc' = "returned"
    /\ UNCHANGED <<auxVars, graphVars, data, levelVars, transVars>>

\* lines 101, 125: the loop test fails and the layers are returned
BuildLevelsReturn ==
    /\ pc = "while"
    /\ queue = <<>>
    /\ lvls' = levels
    /\ pc' = "returned"
    /\ UNCHANGED <<auxVars, graphVars, data, levelVars, transVars>>

\* ---- transform ----------------------------------------------------------
\* a rename that does not count itself
RenamedNoCount(nd, old, new) ==
    [nd EXCEPT !.name = new,
               !.history = Append(@, [old |-> old, new |-> new])]

\* lines 139-141: the node's record after one rename
Renamed(nd, old, new) ==
    [nd EXCEPT !.name = new,
               !.n_transforms = @ + 1,
               !.history = Append(@, [old |-> old, new |-> new])]

\* the old name of the last history entry instead of the first
OrigNameLatest(p_data) ==
    IF p_data.history # <<>>
      THEN p_data.history[Len(p_data.history)].old
      ELSE p_data.name

\* lines 151-154: p_data.history[0].split('→')[0] if p_data.history
\*                else p_data.name
OrigName(p_data) ==
    IF p_data.history # <<>> THEN p_data.history[1].old ELSE p_data.name

\* line 155: current.get(p, p_data.name)
CurrentGet(cur, p, default) == IF p \in DOMAIN cur THEN cur[p] ELSE default

\* the pairs of the node's children instead of its parents
ParentPairsOfChildren(canon, dat, cur) ==
    LET succs == Successors(canon)
    IN  [i \in 1..Len(succs) |->
            <<OrigName(dat[succs[i]]),
              CurrentGet(cur, succs[i], dat[succs[i]].name)>>]

\* the original name recorded on both sides of a pair
ParentPairsOrigTwice(canon, dat, cur) ==
    LET preds == Predecessors(canon)
    IN  [i \in 1..Len(preds) |->
            <<OrigName(dat[preds[i]]), OrigName(dat[preds[i]])>>]

\* lines 146-155: the pairs of one parent_history entry
ParentPairs(canon, dat, cur) ==
    LET preds == Predecessors(canon)
    IN  [i \in 1..Len(preds) |->
            <<OrigName(dat[preds[i]]),
              CurrentGet(cur, preds[i], dat[preds[i]].name)>>]

\* line 131
TransformStart ==
    /\ pc \in {"returned", "transformed"}
    /\ current' = <<>>
    /\ depth' = 0
    /\ pos' = 1
    /\ pass_start' = data
    /\ pc' = "transform"
    /\ UNCHANGED <<auxVars, graphVars, data, levelVars, lvls, n_steps>>

\* lines 135-156: the loop body for one alias of the layer at index depth,
\* with draw = (random.random() < .5) inside bump; bump's pattern matches
TransformAlias(draw) ==
    /\ pc = "transform"
    /\ depth < Len(lvls)
    /\ pos <= Len(lvls[depth + 1])
    /\ n_steps < MaxTransforms
    /\ Matches(data[SplitCanon(lvls[depth + 1][pos])].name)
    /\ LET alias == lvls[depth + 1][pos]
           canon == SplitCanon(alias)
           nd    == data[canon]
           old   == nd.name
           new   == Bump(nd.name, draw)
           dat1  == [data EXCEPT ![canon] = Renamed(nd, old, new)]
           cur1  == [v \in DOMAIN current \cup {canon} |->
                        IF v = canon THEN new ELSE current[v]]
       IN  /\ current' = cur1
           /\ data' = IF depth # 0
                      THEN [dat1 EXCEPT ![canon].parent_history =
                               Append(@, ParentPairs(canon, dat1, cur1))]
                      ELSE dat1
    /\ pos' = pos + 1
    /\ n_steps' = n_steps + 1
    /\ UNCHANGED <<args, first, libVars, out, graphVars, pc, levelVars, lvls,
                   depth, pass_start>>

\* the step when nothing is known about the state of `random`
TransformStep ==
    /\ \E draw \in BOOLEAN : TransformAlias(draw)
    /\ UNCHANGED <<tape, cursor>>

\* lines 139, 24: the node's name does not match _pat, fullmatch returns None
\* and None.groups() raises; nothing has been assigned yet
TransformRaise ==
    /\ pc = "transform"
    /\ depth < Len(lvls)
    /\ pos <= Len(lvls[depth + 1])
    /\ ~Matches(data[SplitCanon(lvls[depth + 1][pos])].name)
    /\ err' = "AttributeError"
    /\ pc' = "raised"
    /\ UNCHANGED <<seedVars, registry, links, out, graphVars, data, levelVars,
                   lvls,
                   transVars>>

\* the next layer begins as soon as one alias of the layer has been visited
NextLayerEarly ==
    /\ pc = "transform"
    /\ depth < Len(lvls)
    /\ pos > 1
    /\ depth' = depth + 1
    /\ pos' = 1
    /\ UNCHANGED <<auxVars, graphVars, data, pc, levelVars, lvls, current, n_steps,
                   pass_start>>

\* lines 133, 160-163: the layer is exhausted; the views are printed and the
\* next layer begins
NextLayer ==
    /\ pc = "transform"
    /\ depth < Len(lvls)
    /\ pos > Len(lvls[depth + 1])
    /\ depth' = depth + 1
    /\ pos' = 1
    /\ UNCHANGED <<auxVars, graphVars, data, pc, levelVars, lvls, current, n_steps,
                   pass_start>>

\* line 133: no layer is left
TransformReturn ==
    /\ pc = "transform"
    /\ depth = Len(lvls)
    /\ pc' = "transformed"
    /\ UNCHANGED <<auxVars, graphVars, data, levelVars, lvls, transVars>>

\* ---- specifications -----------------------------------------------------
\* a graph of n <= MaxNodes nodes keyed nth(0) .. nth(n-1), each carrying
\* NodeData(name = key), with any set of edges between distinct nodes
Init ==
    /\ \E n \in 0..MaxNodes : order = [i \in 1..n |-> nth(i - 1)]
    /\ edges \in SUBSET {e \in NodeSet \X NodeSet : e[1] # e[2]}
    /\ data = [v \in NodeSet |-> NodeData(v)]
    /\ pc = "idle"
    /\ indeg = [v \in NodeSet |-> 0]
    /\ alias_cnt = [v \in NodeSet |-> 0]
    /\ levels = <<>>
    /\ queue = <<>>
    /\ breaks = <<>>
    /\ lvls = <<>>
    /\ current = <<>>
    /\ depth = 0
    /\ pos = 1
    /\ n_steps = 0
    /\ pass_start = data
    /\ tape = <<>>
    /\ cursor = 0
    /\ args = <<>>
    /\ first = <<>>
    /\ err = "none"
    /\ registry = <<>>
    /\ links = {}
    /\ out = <<>>

NextBuild ==
    \/ BuildLevelsStart
    \/ Dequeue
    \/ ForcedBreak
    \/ NoBreak
    \/ BuildLevelsReturn

Next ==
    \/ BuildLevelsStart
    \/ Dequeue
    \/ ForcedBreak
    \/ NoBreak
    \/ BuildLevelsReturn
    \/ TransformStart
    \/ TransformStep
    \/ NextLayer
    \/ TransformReturn

Spec == Init /\ [][Next]_vars

\* build_levels alone, called any number of times on the graph
BuildSpec == Init /\ [][NextBuild]_vars

\* build_levels alone; the function is sequential code, so a started call
\* keeps taking its next step
BuildSteps == Dequeue \/ ForcedBreak \/ NoBreak \/ BuildLevelsReturn

LiveSpec == Init /\ [][NextBuild]_vars /\ WF_vars(BuildSteps)

\* ---- adjacency views and dump -------------------------------------------
\* a dict comprehension over `for v in g`: one key per distinct name, and a
\* later node with the same name replaces the earlier one's value
DictByName(value) ==
    [k \in {data[v].name : v \in NodeSet} |->
        LET vs == SelectSeq(order, LAMBDA v : data[v].name = k)
        IN  value[vs[Len(vs)]]]

\* the children's canonical ids instead of their current names
ChildrenDictCanonical ==
    DictByName([v \in NodeSet |-> Successors(v)])

\* lines 79-81
ChildrenDict ==
    DictByName([v \in NodeSet |->
        [i \in 1..Len(Successors(v)) |-> data[Successors(v)[i]].name]])

\* lines 83-85
ParentsDict ==
    DictByName([v \in NodeSet |->
        [i \in 1..Len(Predecessors(v)) |-> data[Predecessors(v)[i]].name]])

\* the characters of a name as code points: 'A' is 65, 'a' is 97, '0' is 48
RECURSIVE Digits(_)
Digits(n) == IF n < 10 THEN <<48 + n>> ELSE Append(Digits(n \div 10), 48 + (n % 10))

Chars(name) ==
    [i \in 1..Len(name.alpha) |->
        IF name.alpha[i] < AlphabetSize THEN 65 + name.alpha[i]
        ELSE 97 + (name.alpha[i] - AlphabetSize)] \o Digits(name.num)

\* Python's str <
RECURSIVE StrLess(_, _)
StrLess(a, b) ==
    IF b = <<>> THEN FALSE
    ELSE IF a = <<>> THEN TRUE
    ELSE IF Head(a) # Head(b) THEN Head(a) < Head(b)
    ELSE StrLess(Tail(a), Tail(b))

\* line 171: sorted(g)
SortedKeys ==
    [i \in 1..Len(order) |->
        CHOOSE v \in NodeSet :
            Cardinality({w \in NodeSet : StrLess(Chars(w), Chars(v))}) = i - 1]

\* lines 169-177: what dump prints, one block per key
Dump ==
    [i \in 1..Len(order) |->
        [key |-> SortedKeys[i],
         n_transforms |-> data[SortedKeys[i]].n_transforms,
         history |-> data[SortedKeys[i]].history,
         steps |-> data[SortedKeys[i]].parent_history]]

\* the caller is between two calls
AtCaller == pc \in {"idle", "returned", "transformed"}

\* lines 189-191, 200-202: the caller obtains children_dict(g)
ChildrenDictCall ==
    /\ AtCaller
    /\ out' = [kind |-> "children", val |-> ChildrenDict, at |-> n_steps]
    /\ UNCHANGED <<seedVars, libVars, graphVars, data, pc, levelVars, lvls,
                   transVars>>

\* lines 189, 200: the caller obtains parents_dict(g)
ParentsDictCall ==
    /\ AtCaller
    /\ out' = [kind |-> "parents", val |-> ParentsDict, at |-> n_steps]
    /\ UNCHANGED <<seedVars, libVars, graphVars, data, pc, levelVars, lvls,
                   transVars>>

\* a dump that empties each parent_history while it prints it
DumpCallDraining ==
    /\ AtCaller
    /\ out' = [kind |-> "dump", val |-> Dump, at |-> n_steps]
    /\ data' = [v \in NodeSet |-> [data[v] EXCEPT !.parent_history = <<>>]]
    /\ UNCHANGED <<seedVars, libVars, graphVars, pc, levelVars, lvls, transVars>>

\* line 204: the caller calls dump(g)
DumpCall ==
    /\ AtCaller
    /\ out' = [kind |-> "dump", val |-> Dump, at |-> n_steps]
    /\ UNCHANGED <<seedVars, libVars, graphVars, data, pc, levelVars, lvls,
                   transVars>>

\* the report goes out of scope before the caller goes on
DropReport ==
    /\ out # <<>>
    /\ out' = <<>>
    /\ UNCHANGED <<seedVars, libVars, graphVars, data, pc, levelVars, lvls,
                   transVars>>

\* the calls of Next made while the caller holds no report, and the reports
ViewNext ==
    \/ (out = <<>> /\ BuildLevelsStart)
    \/ Dequeue
    \/ ForcedBreak
    \/ NoBreak
    \/ BuildLevelsReturn
    \/ (out = <<>> /\ TransformStart)
    \/ TransformStep
    \/ NextLayer
    \/ TransformReturn
    \/ ChildrenDictCall
    \/ ParentsDictCall
    \/ DumpCall
    \/ DropReport

\* the graphs of Init that have at most MaxViewEdges edges
ViewInit ==
    /\ Init
    /\ Cardinality(edges) <= MaxViewEdges

ViewSpec == ViewInit /\ [][ViewNext]_vars

\* ---- nodes with arbitrary names -----------------------------------------
\* names a caller may pass to NodeData: "A0", "b7", "aB3", "A" (no digits),
\* "0" (no letters), "_0" (a character that is no letter)
Names ==
    { [alpha |-> <<0>>, num |-> 0],
      [alpha |-> <<AlphabetSize + 1>>, num |-> 7],
      [alpha |-> <<AlphabetSize, 1>>, num |-> 3],
      [alpha |-> <<0>>, num |-> -1],
      [alpha |-> <<>>, num |-> 0],
      [alpha |-> <<2 * AlphabetSize>>, num |-> 0] }

\* line 60 with any name: g.add_node(key, data=NodeData(name=nm)); NodeData
\* is a plain dataclass and checks nothing; on a key g already has, add_node
\* replaces the node's data attribute
AddGraphNode ==
    /\ pc = "idle"
    /\ \E nm \in Names : \E i \in 0..Len(order) :
         /\ i < MaxNamedNodes
         /\ order' = IF i = Len(order) THEN Append(order, nth(i)) ELSE order
         /\ data' = [v \in NodeSet \cup {nth(i)} |->
                        IF v = nth(i) THEN NodeData(nm) ELSE data[v]]
         /\ pass_start' = data'
         /\ indeg' = [v \in NodeSet \cup {nth(i)} |-> 0]
         /\ alias_cnt' = [v \in NodeSet \cup {nth(i)} |-> 0]
    /\ UNCHANGED <<auxVars, edges, pc, levels, queue, breaks, lvls, current,
                   depth, pos, n_steps>>

EmptyInit ==
    /\ Init
    /\ order = <<>>

\* graphs of nodes without edges, so the cycle-breaker has nothing to break
NameNext ==
    \/ AddGraphNode
    \/ BuildLevelsStart
    \/ Dequeue
    \/ NoBreak
    \/ BuildLevelsReturn
    \/ TransformStart
    \/ TransformStep
    \/ TransformRaise
    \/ NextLayer
    \/ TransformReturn

NameSpec == EmptyInit /\ [][NameNext]_vars

\* ---- CodeDependencyGraph -------------------------------------------------
Languages == {"java", "python"}
FileNames == {"A", "B", "C"}

\* the file nodes a caller may construct
FileNodes ==
    [language : Languages, file_path : 1..MaxPaths, file_name : FileNames]

\* src/codegraphs.py lines 76-79: f"{self.language.value}:{self.file_path}"
UniqueId(file_node) == <<file_node.language, file_node.file_path>>

\* src/codegraphs.py lines 242-254
AddNodeOf(file_node) ==
    /\ pc = "idle"
    /\ registry' = [id \in DOMAIN registry \cup {UniqueId(file_node)} |->
                       IF id = UniqueId(file_node) THEN file_node
                       ELSE registry[id]]
    /\ UNCHANGED <<seedVars, err, links, out, graphVars, data, pc, levelVars,
                   lvls, transVars>>

AddNode == \E file_node \in FileNodes : AddNodeOf(file_node)

RegNext == AddNode

\* src/codegraphs.py lines 235-240: a new graph has no nodes
RegInit ==
    /\ EmptyInit
    /\ registry = <<>>

RegSpec == RegInit /\ [][RegNext]_vars

\* ---- dependency paths ---------------------------------------------------
\* the ids a caller may name, registered or not
Ids == {UniqueId(file_node) : file_node \in FileNodes}

\* src/codegraphs.py lines 256-270; a link between registered nodes becomes
\* an edge of self.graph, a link naming an unregistered id raises
AddLink ==
    /\ pc = "idle"
    /\ \E s \in Ids : \E t \in Ids :
         IF s \in DOMAIN registry /\ t \in DOMAIN registry
           THEN /\ Cardinality(links \cup {<<s, t>>}) <= MaxLinks
                /\ links' = links \cup {<<s, t>>}
                /\ UNCHANGED <<err, pc>>
           ELSE /\ err' = "ValueError"
                /\ pc' = "raised"
                /\ UNCHANGED links
    /\ UNCHANGED <<seedVars, registry, out, graphVars, data, levelVars, lvls,
                   transVars>>

\* the directed walks of self.graph from s to t over at most all its nodes
Walks(s, t) ==
    { p \in UNION { [1..k -> DOMAIN registry] :
                      k \in 1..Cardinality(DOMAIN registry) } :
        /\ p[1] = s
        /\ p[Len(p)] = t
        /\ \A i \in 1..(Len(p) - 1) : <<p[i], p[i + 1]>> \in links }

\* nx.shortest_path(self.graph, s, t) when there is a path: any shortest one
ShortestPaths(s, t) ==
    {p \in Walks(s, t) : \A q \in Walks(s, t) : Len(p) <= Len(q)}

\* nx.shortest_path raises NodeNotFound when source or target is not a node
\* of the graph, and NetworkXNoPath when both are but no path joins them
MissingNode(s, t) == s \notin DOMAIN registry \/ t \notin DOMAIN registry

\* src/codegraphs.py lines 280-285: only NetworkXNoPath is caught; the
\* absent result None is reported as the empty path, which no path is
GetDependencyPath ==
    /\ pc = "idle"
    /\ \E s \in Ids : \E t \in Ids :
         IF MissingNode(s, t)
           THEN /\ err' = "NodeNotFound"
                /\ pc' = "raised"
                /\ UNCHANGED out
           ELSE /\ IF Walks(s, t) = {}
                     THEN out' = [kind |-> "path", source |-> s, target |-> t,
                                  val |-> <<>>]
                     ELSE \E p \in ShortestPaths(s, t) :
                            out' = [kind |-> "path", source |-> s,
                                    target |-> t, val |-> p]
                /\ UNCHANGED <<err, pc>>
    /\ UNCHANGED <<seedVars, registry, links, graphVars, data, levelVars,
                   lvls, transVars>>

\* a caller that registers the Java files named A, links them, and asks for
\* paths while it holds no earlier answer
PathNext ==
    \/ (out = <<>> /\ \E file_node \in FileNodes :
                        /\ file_node.language = "java"
                        /\ file_node.file_name = "A"
                        /\ AddNodeOf(file_node))
    \/ (out = <<>> /\ AddLink)
    \/ (out = <<>> /\ GetDependencyPath)
    \/ DropReport

PathSpec == RegInit /\ [][PathNext]_vars

\* ---- seeded runs ---------------------------------------------------------
\* draws of random.random() and the density argument, in quarters: a draw of
\* 1 is below .5, a draw of 3 is not; every draw is below a density of 1
Unit == 4
Draws == {1, 3}
Dens == {0, 2, Unit}

\* the k-th draw of the seed's generator, which is periodic
DrawAt(k) == tape[(k % Len(tape)) + 1]

\* lines 52-53: random.seed(seed) puts the generator, wherever it is, at the
\* beginning of the seed's period
UnseededState(at) == at

SeededState(at) == 0

\* lines 63-65: the number of draws made before the pair (order[i], order[j])
\* is reached; s = d makes no draw
PairIndex(i, j, n) == (i - 1) * (n - 1) + (IF j < i THEN j - 1 ELSE j - 2)

\* line 70: random.choice picks the index from one draw
ChoiceIndex(draw, n) == (draw * n) \div Unit

\* the edges as drawn, left as they are
EnsureRootNot(drawn, nodes, v) == drawn

\* lines 69-71: when no node has in-degree 0, the in-edges of v are removed
EnsureRoot(drawn, nodes, v) ==
    IF \A i \in 1..Len(nodes) : \E e \in drawn : e[2] = nodes[i]
      THEN {e \in drawn : e[2] # v}
      ELSE drawn

\* lines 39-73, the whole call; on n = 0 the list of roots is empty and
\* random.choice raises on the empty node list
MakeGraph ==
    /\ pc = "idle"
    /\ args = <<>>
    /\ \E n \in 0..MaxGenNodes : \E dens \in Dens :
         LET start == SeededState(cursor)
             nodes == [i \in 1..n |-> nth(i - 1)]
             drawn == { <<nodes[p[1]], nodes[p[2]]>> :
                          p \in { q \in (1..n) \X (1..n) :
                                    /\ q[1] # q[2]
                                    /\ DrawAt(start + PairIndex(q[1], q[2], n))
                                         < dens } }
             after == start + n * (n - 1)
             rootless == \A i \in 1..n : \E e \in drawn : e[2] = nodes[i]
             v == nodes[ChoiceIndex(DrawAt(after), n) + 1]
         IN  /\ args' = [n |-> n, dens |-> dens]
             /\ order' = nodes
             /\ data' = [w \in Range(nodes) |-> NodeData(w)]
             /\ pass_start' = data'
             /\ indeg' = [w \in Range(nodes) |-> 0]
             /\ alias_cnt' = [w \in Range(nodes) |-> 0]
             /\ IF n = 0
                  THEN /\ edges' = {}
                       /\ cursor' = start
                       /\ err' = "IndexError"
                       /\ pc' = "raised"
                  ELSE /\ edges' = EnsureRoot(drawn, nodes, v)
                       /\ cursor' = (after + IF rootless THEN 1 ELSE 0)
                                       % Len(tape)
                       /\ UNCHANGED <<err, pc>>
    /\ UNCHANGED <<tape, first, registry, links, out, levels, queue, breaks,
                   lvls,
                   current, depth, pos, n_steps>>

\* lines 139, 25: the loop body for one alias, bump taking its draw from the
\* generator
SeededTransformStep ==
    /\ TransformAlias(DrawAt(cursor) * 2 < Unit)
    /\ cursor' = (cursor + 1) % Len(tape)
    /\ UNCHANGED tape

\* lines 183-204 once more: the first run's arguments and results are kept
\* for comparison and the second run starts from nothing, its generator in
\* any state
SecondRun ==
    /\ pc = "transformed"
    /\ first = <<>>
    /\ first' = [args |-> args, lvls |-> lvls, edges |-> edges, data |-> data]
    /\ args' = <<>>
    /\ cursor' \in 0..(Len(tape) - 1)
    /\ order' = <<>>
    /\ edges' = {}
    /\ data' = <<>>
    /\ pass_start' = <<>>
    /\ indeg' = <<>>
    /\ alias_cnt' = <<>>
    /\ levels' = <<>>
    /\ queue' = <<>>
    /\ breaks' = <<>>
    /\ lvls' = <<>>
    /\ current' = <<>>
    /\ depth' = 0
    /\ pos' = 1
    /\ n_steps' = 0
    /\ pc' = "idle"
    /\ UNCHANGED <<tape, libVars, out>>

\* no graph yet; the generator of the seed is any sequence of draws, and
\* the process starts with the generator in any state
GenInit ==
    /\ order = <<>>
    /\ edges = {}
    /\ data = <<>>
    /\ pc = "idle"
    /\ indeg = <<>>
    /\ alias_cnt = <<>>
    /\ levels = <<>>
    /\ queue = <<>>
    /\ breaks = <<>>
    /\ lvls = <<>>
    /\ current = <<>>
    /\ depth = 0
    /\ pos = 1
    /\ n_steps = 0
    /\ pass_start = <<>>
    /\ tape \in [1..Period -> Draws]
    /\ cursor \in 0..(Period - 1)
    /\ args = <<>>
    /\ first = <<>>
    /\ err = "none"
    /\ registry = <<>>
    /\ links = {}
    /\ out = <<>>

\* make_graph, build_levels and transform, each once and in this order
GenNext ==
    \/ MakeGraph
    \/ (args # <<>> /\ pc = "idle" /\ BuildLevelsStart)
    \/ Dequeue
    \/ ForcedBreak
    \/ NoBreak
    \/ BuildLevelsReturn
    \/ (pc = "returned" /\ TransformStart)
    \/ SeededTransformStep
    \/ NextLayer
    \/ TransformReturn
    \/ SecondRun

GenSpec == GenInit /\ [][GenNext]_vars

\* ---- make_graph's node loop ---------------------------------------------
\* lines 39, 52-56: make_graph is entered with n and dens, the graph is new
MakeGraphEnter ==
    /\ pc = "idle"
    /\ args = <<>>
    /\ \E n \in 0..MaxLoopNodes : \E dens \in Dens :
         args' = [n |-> n, dens |-> dens]
    /\ cursor' = SeededState(cursor)
    /\ pc' = "nodes"
    /\ UNCHANGED <<tape, first, libVars, out, graphVars, data, levelVars, lvls,
                   transVars>>

\* lines 58-60: one pass of `for i in range(n)`, with i = len(g) so far
AddNthNode ==
    /\ pc = "nodes"
    /\ Len(order) < args.n
    /\ LET nm == nth(Len(order))
       IN  /\ order' = IF nm \in NodeSet THEN order ELSE Append(order, nm)
           /\ data' = [v \in NodeSet \cup {nm} |->
                          IF v = nm THEN NodeData(nm) ELSE data[v]]
           /\ pass_start' = data'
           /\ indeg' = [v \in NodeSet \cup {nm} |-> 0]
           /\ alias_cnt' = [v \in NodeSet \cup {nm} |-> 0]
    /\ UNCHANGED <<auxVars, edges, pc, levels, queue, breaks, lvls, current,
                   depth, pos, n_steps>>

\* line 58: range(n) is exhausted, the edge loops are next
NodeLoopDone ==
    /\ pc = "nodes"
    /\ Len(order) = args.n
    /\ pc' = "edges"
    /\ UNCHANGED <<auxVars, graphVars, data, levelVars, lvls, transVars>>

NodeLoopNext ==
    \/ MakeGraphEnter
    \/ AddNthNode
    \/ NodeLoopDone

NodeLoopSpec == EmptyInit /\ [][NodeLoopNext]_vars

\* ---- properties ---------------------------------------------------------
Returned == pc = "returned"

\* positions <<layer, place>> of the layer sequence lv
Places(lv) == UNION {{<<i, j>> : j \in 1..Len(lv[i])} : i \in 1..Len(lv)}

\* list indices (from 0) of the layers of lv that hold an alias of node v
LayersOf(lv, v) == {q[1] - 1 : q \in {r \in Places(lv) : lv[r[1]][r[2]].can = v}}

Placed(lv) == {lv[q[1]][q[2]].can : q \in Places(lv)}

RECURSIVE Closure(_)
Closure(R) ==
    LET R2 == R \cup {<<y[1][1], y[2][2]>> : y \in {z \in R \X R : z[1][2] = z[2][1]}}
    IN  IF R2 = R THEN R ELSE Closure(R2)

Acyclic == \A p \in Closure(edges) : p[1] # p[2]

Rootless == NodeSet # {} /\ \A v \in NodeSet : InDegree(v) > 0

EveryNodeOnCycle == \A v \in NodeSet : <<v, v>> \in Closure(edges)

\* C1: for an acyclic graph, in the layers build_levels returns, both ends of
\* every edge (s,t) are placed and every layer index of t is strictly
\* greater than every layer index of s.
C1_TopologicalLayers ==
    (Returned /\ Acyclic) =>
        \A e \in edges :
            /\ LayersOf(levels, e[1]) # {}
            /\ LayersOf(levels, e[2]) # {}
            /\ \A i \in LayersOf(levels, e[1]) :
                 \A j \in LayersOf(levels, e[2]) : j > i

\* an acyclic graph with a path of two edges has been layered
C1_Witness ==
    /\ Returned
    /\ Acyclic
    /\ \E e \in edges : \E f \in edges : e[2] = f[1]
    /\ Len(levels) >= 3

\* C2: on a graph in which every node lies on a cycle and no node has
\* in-degree 0, build_levels has taken its forced cycle-break path at least
\* once when it returns.
C2_ForcedBreakOnRootless ==
    (Returned /\ Rootless /\ EveryNodeOnCycle) => breaks # <<>>

\* C3: when build_levels returns, no in-degree counter is positive and every
\* node of the graph is in some returned layer.
C3_AllResolved ==
    Returned =>
        /\ \A v \in NodeSet : indeg[v] <= 0
        /\ \A v \in NodeSet : v \in Placed(levels)

C5_EmptyGraphNoLayers ==
    (Returned /\ NodeSet = {}) => Len(levels) = 0

\* C6: no alias occurs twice in the layers of one build_levels run, neither
\* within one layer nor in two layers.
C6_AliasesUnique ==
    \A q \in Places(levels) : \A r \in Places(levels) :
        (q # r) => (levels[q[1]][q[2]] # levels[r[1]][r[2]])

\* a run that placed three aliases, one of them by a forced break
C6_Witness ==
    /\ Returned
    /\ Cardinality(Places(levels)) >= 3
    /\ Len(breaks) >= 1

\* C7: every canonical node is placed in a layer, and so enqueued, at most
\* once per run; every alias is the bare canonical id; the queue holds only
\* placed aliases, each once; a force-broken node's counter stays <= 0.
C7_NoDuplication ==
    /\ \A v \in NodeSet :
         Cardinality({q \in Places(levels) : levels[q[1]][q[2]].can = v}) <= 1
    /\ \A q \in Places(levels) : levels[q[1]][q[2]].idx = 0
    /\ \A i \in 1..Len(queue) :
         /\ queue[i].can \in Placed(levels)
         /\ \A j \in 1..Len(queue) : (queue[i] = queue[j]) => (i = j)
    /\ \A i \in 1..Len(breaks) : indeg[breaks[i]] <= 0

\* a force-broken node whose predecessor was dequeued after the break
C7_Witness ==
    /\ Returned
    /\ \E i \in 1..Len(breaks) : indeg[breaks[i]] < 0

\* C8: no step of build_levels or transform changes the node keys or the
\* edges, and no step of build_levels changes any node's name,
\* n_transforms, history or parent_history.
C8_GraphFrame ==
    [][ /\ order' = order
        /\ edges' = edges
        /\ DOMAIN data' = DOMAIN data
        /\ (pc' \in {"while", "check", "returned"} => data' = data) ]_vars

\* build_levels has run again on a graph with edges after a transform step
C8_Witness ==
    /\ Returned
    /\ n_steps > 0
    /\ edges # {}

\* C9: in every history entry of every node, the numeric suffix of the new
\* name is 1 plus the numeric suffix of the old name.
C9_SuffixIncrement ==
    \A v \in NodeSet :
        \A i \in 1..Len(data[v].history) :
            data[v].history[i].new.num = 1 + data[v].history[i].old.num

\* a node renamed in two passes
C9_Witness ==
    \E v \in NodeSet :
        /\ Len(data[v].history) >= 2
        /\ data[v].history[2].old = data[v].history[1].new

\* C10: for every node, len(history) = n_transforms, initially and after
\* every per-alias transformation step.
C10_HistoryLength ==
    \A v \in NodeSet : Len(data[v].history) = data[v].n_transforms

\* in the middle of a second pass: one node renamed twice, another once
C10_Witness ==
    /\ pc = "transform"
    /\ \E v \in NodeSet : data[v].n_transforms = 2
    /\ \E v \in NodeSet : data[v].n_transforms = 1

\* ---- properties of transform ---------------------------------------------
\* place q comes before place r in the visiting order of a layer sequence
Before(q, r) == q[1] < r[1] \/ (q[1] = r[1] /\ q[2] < r[2])

\* number of aliases of lv that resolve to node v
AliasCount(lv, v) == Cardinality({q \in Places(lv) : lv[q[1]][q[2]].can = v})

HasRoot == \E v \in NodeSet : InDegree(v) = 0

\* C12: during a pass the aliases renamed so far in this pass are exactly
\* those at the places before the loop's position, so no alias of a later
\* layer (or later in its layer) is renamed before an earlier one.
C12_LayerOrder ==
    (pc = "transform") =>
        \A q \in Places(lvls) :
            (data[lvls[q[1]][q[2]].can].n_transforms
                 > pass_start[lvls[q[1]][q[2]].can].n_transforms)
            <=> Before(q, <<depth + 1, pos>>)

\* the first alias of layer 1 has been renamed after both aliases of layer 0
C12_Witness ==
    /\ pc = "transform"
    /\ Len(lvls) >= 2
    /\ Len(lvls[1]) = 2
    /\ depth = 1
    /\ pos = 2

\* C13: a completed pass has raised every node's n_transforms by the number
\* of aliases of the layers that resolve to it, which is exactly 1 for every
\* node when the graph has a node of in-degree 0.
C13_PassCounts ==
    (pc = "transformed") =>
        \A v \in NodeSet :
            /\ data[v].n_transforms
                 = pass_start[v].n_transforms + AliasCount(lvls, v)
            /\ HasRoot =>
                 data[v].n_transforms = pass_start[v].n_transforms + 1

\* a pass over the layers of a rooted graph with a broken cycle is complete
C13_Witness ==
    /\ pc = "transformed"
    /\ HasRoot
    /\ breaks # <<>>
    /\ \E v \in NodeSet : data[v].n_transforms >= 1

\* C14: a step that renames a node in layer 0 leaves its parent_history as
\* it was; a step in a later layer appends exactly one entry, with one pair
\* per direct predecessor, in predecessor order (pair i ends in the display
\* name predecessor i has at that moment); other nodes' parent_history is
\* untouched.
C14_ParentEntries ==
    [][ (n_steps' = n_steps + 1) =>
          LET canon == lvls[depth + 1][pos].can
              preds == SelectSeq(order, LAMBDA p : <<p, canon>> \in edges)
              ph0   == data[canon].parent_history
              ph1   == data'[canon].parent_history
          IN  /\ \A v \in NodeSet \ {canon} :
                   data'[v].parent_history = data[v].parent_history
              /\ IF depth = 0
                 THEN ph1 = ph0
                 ELSE /\ Len(ph1) = Len(ph0) + 1
                      /\ SubSeq(ph1, 1, Len(ph0)) = ph0
                      /\ Len(ph1[Len(ph1)]) = Len(preds)
                      /\ \A i \in 1..Len(preds) :
                           ph1[Len(ph1)][i][2] = data'[preds[i]].name ]_vars

\* a force-broken node with two predecessors has its entry of two pairs
C14_Witness ==
    \E i \in 1..Len(breaks) :
        /\ Len(data[breaks[i]].parent_history) = 1
        /\ Len(data[breaks[i]].parent_history[1]) = 2

\* C15: on an acyclic graph, entry j of a node's parent_history was written
\* when each direct predecessor had already been renamed in that pass: the
\* 'after' of pair i is the new name of predecessor i's j-th rename.
C15_ParentsRenamedFirst ==
    ((\E v \in NodeSet : data[v].parent_history # <<>>) /\ Acyclic) =>
        \A v \in NodeSet :
            \A j \in 1..Len(data[v].parent_history) :
                \A i \in 1..Len(data[v].parent_history[j]) :
                    LET p == Predecessors(v)[i]
                    IN  /\ Len(data[p].history) >= j
                        /\ data[v].parent_history[j][i][2]
                             = data[p].history[j].new

\* the chain A0 -> B0 -> C0 after C0 has been renamed
C15_Witness ==
    /\ Acyclic
    /\ \E e \in edges : \E f \in edges :
         /\ e[2] = f[1]
         /\ Len(data[f[2]].parent_history) = 1
         /\ data[f[2]].parent_history[1][1][2] = data[f[1]].name
         /\ data[f[1]].n_transforms = 1

\* C18: a forced break is only applied to a node whose counter is strictly
\* positive at that moment and that is in no layer yet.
C18_BreakOnlyPositive ==
    [][ (Len(breaks') = Len(breaks) + 1) =>
          /\ indeg[breaks'[Len(breaks')]] > 0
          /\ breaks'[Len(breaks')] \notin Placed(levels) ]_vars

\* a forced break has just been applied
C18_Witness ==
    /\ pc = "while"
    /\ breaks # <<>>
    /\ queue # <<>>
    /\ indeg[breaks[Len(breaks)]] = 0

\* C19: a call of children_dict, parents_dict or dump changes no node field,
\* no node key and no edge, and a call that follows a call of the same
\* function with no rename step in between returns the same output.
C19_ReportsArePure ==
    [][ /\ (out' # out) =>
             (data' = data /\ edges' = edges /\ order' = order)
        /\ (out # <<>> /\ out' # <<>> /\ out'.kind = out.kind
               /\ out'.at = out.at) => out'.val = out.val ]_vars

\* dump has been called after a pass that wrote a parent_history entry
C19_Witness ==
    /\ out # <<>>
    /\ out.kind = "dump"
    /\ \E i \in 1..Len(out.val) : out.val[i].steps # <<>>

\* C20: children_dict and parents_dict each have exactly one key per node,
\* the node's current name, and name c is listed under v in children_dict
\* exactly when v is listed under c in parents_dict.
C20_ViewsConsistent ==
    LET names == {data[v].name : v \in NodeSet}
        cd == ChildrenDict
        pd == ParentsDict
    IN  /\ DOMAIN cd = names
        /\ DOMAIN pd = names
        /\ Cardinality(names) = Cardinality(NodeSet)
        /\ \A v \in names : \A c \in names :
             (c \in Range(cd[v])) <=> (v \in Range(pd[c]))

\* a renamed node lists a renamed child
C20_Witness ==
    \E e \in edges :
        /\ data[e[1]].n_transforms >= 1
        /\ data[e[2]].n_transforms >= 1
        /\ data[e[2]].name \in Range(ChildrenDict[data[e[1]].name])

\* C16: a rename of a node whose name does not match <letters><digits>
\* reaches the caller as a FormatError, and no node with such a name is ever
\* constructed.
C16_FormatError ==
    /\ (pc = "raised") => (err = "FormatError")
    /\ \A v \in NodeSet : Matches(data[v].name)

\* C17: a node registered under an id stays the node of that id: a second
\* registration under the same id does not replace it.
C17_DuplicateRejected ==
    [][ \A id \in DOMAIN registry :
          id \in DOMAIN registry' /\ registry'[id] = registry[id] ]_vars

\* C11: when the second run of make_graph, build_levels and transform took
\* the same arguments as the first (the seed is the same throughout), it
\* ends with the same graph, the same layers and, for every node, the same
\* rename and parent histories.
C11_SameSeedSameRun ==
    (first # <<>> /\ pc = "transformed" /\ args = first.args) =>
        /\ lvls = first.lvls
        /\ edges = first.edges
        /\ DOMAIN data = DOMAIN first.data
        /\ \A v \in DOMAIN data :
             /\ data[v].history = first.data[v].history
             /\ data[v].parent_history = first.data[v].parent_history
             /\ data[v].name = first.data[v].name

\* a second run of equal arguments has finished on a graph with an edge, the
\* two runs having started with the generator in different states
C11_Witness ==
    /\ first # <<>>
    /\ pc = "transformed"
    /\ args = first.args
    /\ edges # {}
    /\ \E v \in NodeSet : data[v].name.alpha # v.alpha
    /\ \E v \in NodeSet : data[v].name.alpha = v.alpha

\* C21: the graph make_graph returns for n >= 1 has no self-loop and has a
\* node of in-degree 0, whatever the density and the draws.
C21_RootAndNoSelfLoop ==
    (args # <<>> /\ args.n >= 1) =>
        /\ \A e \in edges : e[1] # e[2]
        /\ \E v \in NodeSet : InDegree(v) = 0

\* make_graph drew every edge of a graph of three nodes and had to make a
\* root
C21_Witness ==
    /\ args # <<>>
    /\ args.n = MaxGenNodes
    /\ args.dens = Unit
    /\ pc = "idle"
    /\ Cardinality(edges) = MaxGenNodes * (MaxGenNodes - 1) - (MaxGenNodes - 1)

\* C22: get_dependency_path never raises: for ids that no path joins, ids
\* that are not nodes of the graph included, the caller gets the absent
\* result.
C22_PathNeverRaises == err # "NodeNotFound"

\* C23: when every node was constructed with a name matching
\* <letters><digits>, every node's name matches it after any transform steps,
\* its letters are the initial letters up to case (the all-upper or the
\* all-lower form of them once the node has been renamed), and its number is
\* the initial number plus n_transforms.
C23_NameShape ==
    (\A v \in NodeSet : Matches(OrigName(data[v]))) =>
        \A v \in NodeSet :
            LET init == OrigName(data[v])
                name == data[v].name
            IN  /\ Matches(name)
                /\ Upper(name.alpha) = Upper(init.alpha)
                /\ data[v].n_transforms > 0 =>
                     name.alpha \in {Upper(init.alpha), Lower(init.alpha)}
                /\ name.num = init.num + data[v].n_transforms

\* the node constructed as "aB3", renamed twice, is "ab5" or "AB5", next to
\* a node that has been renamed once
C23_Witness ==
    /\ \A v \in NodeSet : Matches(OrigName(data[v]))
    /\ \E v \in NodeSet :
         /\ OrigName(data[v]) = [alpha |-> <<AlphabetSize, 1>>, num |-> 3]
         /\ data[v].n_transforms = 2
         /\ data[v].name.num = 5
    /\ \E v \in NodeSet : data[v].n_transforms = 1

\* C24: layer 0 holds exactly the nodes whose in-degree in the graph is 0,
\* and when a node u is dequeued, every successor whose counter thereby
\* reaches exactly 0 gets a new alias in the layer right after u's layer.
C24_ZeroGoesNext ==
    [][ /\ (levels' # <<>>) =>
             /\ Range(levels'[1])
                  = {Alias(v, 0) : v \in {w \in NodeSet : InDegree(w) = 0}}
             /\ Len(levels'[1])
                  = Cardinality({w \in NodeSet : InDegree(w) = 0})
        /\ (pc = "while" /\ pc' = "check") =>
             LET u == Head(queue)
             IN  \A i \in 1..Len(levels) :
                   (u \in Range(levels[i])) =>
                     \A t \in NodeSet :
                       (<<u.can, t>> \in edges /\ indeg[t] = 1) =>
                         /\ Len(levels') >= i + 1
                         /\ \E a \in Range(levels'[i + 1]) :
                              /\ a.can = t
                              /\ \A j \in 1..Len(levels) :
                                   a \notin Range(levels[j])
                         /\ AliasCount(levels', t) = AliasCount(levels, t) + 1
      ]_vars

\* the last node of the chain A0 -> B0 -> C0 has been placed, two layers
\* after the root, without any forced break
C24_Witness ==
    /\ pc = "check"
    /\ breaks = <<>>
    /\ Len(levels) = 3
    /\ \E e \in edges : \E f \in edges :
         /\ e[2] = f[1]
         /\ Alias(e[1], 0) \in Range(levels[1])
         /\ Alias(f[1], 0) \in Range(levels[2])
         /\ Alias(f[2], 0) \in Range(levels[3])

\* list index (from 0) of the layer of lv that holds alias a
LayerOfAlias(lv, a) == (CHOOSE i \in 1..Len(lv) : a \in Range(lv[i])) - 1

\* C25: on any graph, the queue holds aliases in non-decreasing layer order
\* and none of a layer below an alias already dequeued, so nodes are dequeued
\* in non-decreasing layer order; and for every edge (s,t) whose target was
\* placed by its counter reaching 0, s is placed and every layer of t is
\* strictly greater than every layer of s, for every predecessor s of t.
C25_AllPredecessorsEarlier ==
    /\ \A i \in 1..Len(queue) : \A j \in i..Len(queue) :
         LayerOfAlias(levels, queue[i]) <= LayerOfAlias(levels, queue[j])
    /\ \A q \in Places(levels) : \A b \in Range(queue) :
         (levels[q[1]][q[2]] \notin Range(queue)) =>
             q[1] - 1 <= LayerOfAlias(levels, b)
    /\ \A e \in edges :
         (e[2] \in Placed(levels) /\ e[2] \notin Range(breaks)) =>
             /\ e[1] \in Placed(levels)
             /\ \A ls \in LayersOf(levels, e[1]) :
                  \A lt \in LayersOf(levels, e[2]) : lt > ls

\* build_levels returned after a forced break, and a node placed by its
\* counter has two predecessors in different layers
C25_Witness ==
    /\ Returned
    /\ breaks # <<>>
    /\ \E e \in edges : \E f \in edges :
         /\ e[2] = f[2]
         /\ e[2] \notin Range(breaks)
         /\ e[2] \in Placed(lvls)
         /\ \E ls \in LayersOf(lvls, e[1]) :
              \E lf \in LayersOf(lvls, f[1]) : ls < lf

\* C26: a forced break appends exactly one layer at the end of the layer
\* sequence, holding exactly the alias of the force-broken node and so lying
\* after the layer of every alias placed before; and no layer other than
\* layer 0 is ever empty, in particular none of the returned ones.
C26_BreakAppendsLayer ==
    [][ /\ (Len(breaks') = Len(breaks) + 1) =>
             /\ Len(levels') = Len(levels) + 1
             /\ \A i \in 1..Len(levels) : levels'[i] = levels[i]
             /\ Len(levels'[Len(levels')]) = 1
             /\ levels'[Len(levels')][1].can = breaks'[Len(breaks')]
             /\ \A q \in Places(levels) :
                  /\ levels[q[1]][q[2]] # levels'[Len(levels')][1]
                  /\ q[1] < Len(levels')
        /\ \A i \in 2..Len(levels') : levels'[i] # <<>>
        /\ \A i \in 2..Len(lvls') : lvls'[i] # <<>>
      ]_vars

\* build_levels returned three layers: the root's, the one a forced break
\* appended after it, and the one of the broken node's successor
C26_Witness ==
    /\ Returned
    /\ Len(breaks) = 1
    /\ Len(lvls) = 3
    /\ lvls[1] # <<>>
    /\ lvls[2] = <<Alias(breaks[1], 0)>>

\* C27: in the parent pairs a step of transform records, 'before' is the
\* parent's original name (the old name of its first history entry, or its
\* current name when it has no history), which is the name the parent was
\* constructed with, in a second pass as in the first; and 'after' is the
\* parent's display name at that moment.
C27_PairBeforeAfter ==
    [][ (n_steps' = n_steps + 1 /\ depth # 0) =>
          LET canon == lvls[depth + 1][pos].can
              preds == SelectSeq(order, LAMBDA p : <<p, canon>> \in edges)
              entry == data'[canon].parent_history[
                           Len(data'[canon].parent_history)]
          IN  /\ Len(entry) = Len(preds)
              /\ \A i \in 1..Len(preds) :
                   LET p_data == data'[preds[i]]
                   IN  /\ entry[i][1] = IF p_data.history # <<>>
                                          THEN p_data.history[1].old
                                          ELSE p_data.name
                       /\ entry[i][1] = NodeData(preds[i]).name
                       /\ entry[i][2] = p_data.name ]_vars

\* a second pass has recorded, for a child, a pair whose 'before' is the
\* parent's constructed name although the parent has been renamed twice
C27_Witness ==
    \E e \in edges :
        /\ Len(data[e[2]].parent_history) = 2
        /\ data[e[1]].n_transforms = 2
        /\ \E i \in 1..Len(data[e[2]].parent_history[2]) :
             /\ data[e[2]].parent_history[2][i][1] = e[1]
             /\ data[e[2]].parent_history[2][i][2] = data[e[1]].name
             /\ data[e[1]].history[2].old # e[1]

\* C28: the ids make_graph gives its nodes are nth(0), nth(1), ... = A0, B0,
\* ..., Z0, AA0, ...: the 26th node (i = 25) is Z0, the 27th (i = 26) is AA0,
\* and no two nodes get the same id.
C28_NthEnumerates ==
    /\ \A i \in 1..Len(order) : \A j \in 1..Len(order) :
         (order[i] = order[j]) => (i = j)
    /\ (pc = "edges") => (Len(order) = args.n)
    /\ (Len(order) >= AlphabetSize) =>
         order[AlphabetSize] = [alpha |-> <<AlphabetSize - 1>>, num |-> 0]
    /\ (Len(order) >= AlphabetSize + 1) =>
         order[AlphabetSize + 1] = [alpha |-> <<0, 0>>, num |-> 0]

====
